---- MODULE Spec2Model ----
(***************************************************************************)
(* Model of the mev-share client: network registry (src/src/types.rs),     *)
(* client construction, event dispatch loop and bundle submission          *)
(* (src/src/client.rs) and the request-signing middleware                  *)
(* (src/src/signer_middleware.rs).                                         *)
(*                                                                         *)
(* Option<T> is modelled as a sequence of length <= 1: None == <<>>,       *)
(* Some(x) == <<x>>.                                                       *)
(***************************************************************************)
EXTENDS Integers, Sequences, FiniteSets, TLC

VARIABLES client, tracing, loops, calls, joined

vars == <<client, tracing, loops, calls, joined>>

\* ------------------------------------------------------------------ bounds
MaxChainId == 6
MaxCalls == 2
MaxOn == 2
MaxStream == 3

ChainIds == 0..MaxChainId
CallIds == 1..MaxCalls
OnIds == 1..MaxOn

None == <<>>
Some(x) == <<x>>

\* ------------------------------------------------------- network registry
ChainMainnet == 1
ChainGoerli == 5

mainnet ==
  [name |-> "mainnet", chain_id |-> ChainMainnet,
   stream_url |-> "https://mev-share.flashbots.net",
   api_url |-> "https://relay.flashbots.net"]

goerli ==
  [name |-> "goerli", chain_id |-> ChainGoerli,
   stream_url |-> "https://mev-share-goerli.flashbots.net",
   api_url |-> "https://relay-goerli.flashbots.net"]

\* SupportedNetworks::new : the values of the HashMap
supported_networks == {mainnet, goerli}

is_supported(chain_id) ==
  \E network \in supported_networks : network.chain_id = chain_id

\* mutant: the scan ignores the chain id and yields the first entry
get_network_first(chain) ==
  IF \E network \in supported_networks : network.chain_id = chain
  THEN Some(mainnet)
  ELSE None

get_network(chain) ==
  IF \E network \in supported_networks : network.chain_id = chain
  THEN Some(CHOOSE network \in supported_networks : network.chain_id = chain)
  ELSE None

\* ------------------------------------------------------------ construction
Signers == {"0xA1", "0xA2"}

NoClient ==
  [state |-> "none", network |-> None, signer |-> None, http |-> None,
   requested |-> None]

\* MatchmakerClient::new : builds the signing HTTP client on network.api_url
new(auth_signer, network, chain) ==
  [state |-> "built", network |-> Some(network), signer |-> Some(auth_signer),
   http |-> Some(network.api_url), requested |-> Some(chain)]

\* Option::unwrap on the looked-up network, then new()
BuildFor(auth_signer, chain) ==
  IF get_network(chain) = None
  THEN [NoClient EXCEPT !.state = "panicked", !.requested = Some(chain)]
  ELSE new(auth_signer, get_network(chain)[1], chain)

use_ethereum_mainnet ==
  /\ client.state = "none"
  /\ \E auth_signer \in Signers : client' = BuildFor(auth_signer, ChainMainnet)
  /\ UNCHANGED <<tracing, loops, calls, joined>>

use_ethereum_goerli ==
  /\ client.state = "none"
  /\ \E auth_signer \in Signers : client' = BuildFor(auth_signer, ChainGoerli)
  /\ UNCHANGED <<tracing, loops, calls, joined>>

\* mutant: an unsupported chain id silently falls back to mainnet
from_network_fallback ==
  /\ client.state = "none"
  /\ \E auth_signer \in Signers, chain_id \in ChainIds :
       client' = IF ~is_supported(chain_id)
                 THEN new(auth_signer, mainnet, chain_id)
                 ELSE BuildFor(auth_signer, chain_id)
  /\ UNCHANGED <<tracing, loops, calls, joined>>

from_network ==
  /\ client.state = "none"
  /\ \E auth_signer \in Signers, chain_id \in ChainIds :
       client' = IF ~is_supported(chain_id)
                 THEN [NoClient EXCEPT !.state = "panicked",
                                       !.requested = Some(chain_id)]
                 ELSE BuildFor(auth_signer, chain_id)
  /\ UNCHANGED <<tracing, loops, calls, joined>>

\* ------------------------------------------------------------ stream data
tx1 == [to |-> "0xA", function_selector |-> "0x0a0b0c0d", calldata |-> "0xC1"]
tx2 == [to |-> "0xB", function_selector |-> "0x01020304", calldata |-> "0xC2"]

\* decoded stream events (mev_share_rs::sse::Event)
Events ==
  { [hash |-> "0xh0", logs |-> <<"log0">>, transactions |-> <<>>],
    [hash |-> "0xh1", logs |-> <<>>, transactions |-> <<tx1>>],
    [hash |-> "0xh2", logs |-> <<"log2">>, transactions |-> <<tx1, tx2>>],
    [hash |-> "0xh3", logs |-> <<"log3">>, transactions |-> <<tx2, tx1>>] }

Ok(e) == [ok |-> TRUE, event |-> Some(e), err |-> "none"]
Err(kind) == [ok |-> FALSE, event |-> None, err |-> kind]

\* what stream.next() can yield as Some(item)
StreamItems == {Ok(e) : e \in Events} \cup {Err("decode"), Err("transport")}

StreamingEventTypes == {"Bundle", "Transaction"}

\* PendingTransaction::from(&Event)
PendingTransaction_from(e) ==
  [hash |-> e.hash, logs |-> e.logs,
   to |-> IF e.transactions = <<>> THEN None ELSE Some(e.transactions[1].to),
   function_selector |->
     IF e.transactions = <<>> THEN None
     ELSE Some(e.transactions[1].function_selector),
   calldata |->
     IF e.transactions = <<>> THEN None ELSE Some(e.transactions[1].calldata),
   mev_gas_price |-> None, gas_used |-> None]

\* PendingBundle::from(&Event)
PendingBundle_from(e) ==
  [hash |-> e.hash, logs |-> e.logs, transactions |-> e.transactions,
   mev_gas_price |-> None, gas_used |-> None]

on_transaction(event) == [tag |-> "Tx", val |-> PendingTransaction_from(event)]

on_bundle(event) == [tag |-> "Bundle", val |-> PendingBundle_from(event)]

\* mutant: the two arms of `match event_type` are swapped
event_handler_swapped(event_type, event) ==
  IF event_type = "Bundle" THEN on_transaction(event) ELSE on_bundle(event)

\* the closure bound once, before the loop, by `match event_type`
event_handler(event_type, event) ==
  IF event_type = "Bundle" THEN on_bundle(event) ELSE on_transaction(event)

\* an activity (a send_bundle call or an on() loop) that will not run again
Finished == {"returned", "panicked", "dropped", "not_run"}

\* a panic unwinds the task that polls the panicking future: when the
\* caller drives its futures from one task (joined), the futures of every
\* other unfinished activity are dropped with it
Unwound(acts) ==
  [a \in DOMAIN acts |->
     IF ~joined \/ acts[a].pc \in Finished
     THEN acts[a]
     ELSE [acts[a] EXCEPT !.pc = IF @ = "idle" THEN "not_run" ELSE "dropped"]]

\* the callback runs synchronously inside the loop's poll, so the other
\* futures of the same task are not polled while it runs
Schedulable == ~joined \/ \A l \in OnIds : loops[l].pc # "in_handler"

IdleLoop ==
  [pc |-> "idle", kind |-> None, conns |-> <<>>, pulled |-> <<>>,
   eos |-> FALSE, invoked |-> <<>>, inflight |-> 0]

\* mutant: try_init() whose error is ignored
OnInit_TryInit(l) ==
  /\ client.state = "built"
  /\ loops[l].pc = "idle"
  /\ \E event_type \in StreamingEventTypes :
       loops' = [loops EXCEPT ![l].pc = "connecting",
                              ![l].kind = Some(event_type)]
  /\ tracing' = TRUE
  /\ UNCHANGED <<client, calls, joined>>

\* on(): tracing_subscriber ... .init(), which panics when a global
\* subscriber is already set
OnInit(l) ==
  /\ client.state = "built"
  /\ loops[l].pc = "idle"
  /\ Schedulable
  /\ \E event_type \in StreamingEventTypes :
       IF tracing
       THEN /\ loops' = Unwound([loops EXCEPT ![l].pc = "panicked",
                                              ![l].kind = Some(event_type)])
            /\ calls' = Unwound(calls)
       ELSE /\ loops' = [loops EXCEPT ![l].pc = "connecting",
                                      ![l].kind = Some(event_type)]
            /\ UNCHANGED calls
  /\ tracing' = TRUE
  /\ UNCHANGED <<client, joined>>

\* on(): event_client.events(stream_url).await.unwrap()
OnConnect(l) ==
  /\ loops[l].pc = "connecting"
  /\ Schedulable
  /\ \/ /\ loops' = [loops EXCEPT
                       ![l].pc = "pull",
                       ![l].conns = Append(@, client.network[1].stream_url)]
        /\ UNCHANGED calls
     \/ /\ loops' = Unwound([loops EXCEPT ![l].pc = "panicked"])
        /\ calls' = Unwound(calls)
  /\ UNCHANGED <<client, tracing, joined>>

\* mutant: an Err item ends the loop
OnPull_ErrEnds(l) ==
  /\ loops[l].pc = "pull"
  /\ \/ loops' = [loops EXCEPT ![l].pc = "returned", ![l].eos = TRUE]
     \/ /\ Len(loops[l].pulled) < MaxStream
        /\ \E item \in StreamItems :
             IF item.ok
             THEN loops' = [loops EXCEPT
                    ![l].pulled = Append(@, item),
                    ![l].pc = "in_handler",
                    ![l].inflight = @ + 1,
                    ![l].invoked =
                       Append(@, [idx |-> Len(loops[l].pulled) + 1,
                                  arg |-> event_handler(loops[l].kind[1],
                                                        item.event[1])])]
             ELSE loops' = [loops EXCEPT ![l].pulled = Append(@, item),
                                         ![l].pc = "returned"]
  /\ UNCHANGED <<client, tracing, calls, joined>>

\* mutant: the handler is started without being waited for
OnPull_Spawn(l) ==
  /\ loops[l].pc = "pull"
  /\ \/ loops' = [loops EXCEPT ![l].pc = "returned", ![l].eos = TRUE]
     \/ /\ Len(loops[l].pulled) < MaxStream
        /\ \E item \in StreamItems :
             IF item.ok
             THEN loops' = [loops EXCEPT
                    ![l].pulled = Append(@, item),
                    ![l].inflight = @ + 1,
                    ![l].invoked =
                       Append(@, [idx |-> Len(loops[l].pulled) + 1,
                                  arg |-> event_handler(loops[l].kind[1],
                                                        item.event[1])])]
             ELSE loops' = [loops EXCEPT ![l].pulled = Append(@, item)]
  /\ UNCHANGED <<client, tracing, calls, joined>>

\* mutant: the Err arm hands the handler the event it was given last
OnPull_HandleErr(l) ==
  /\ loops[l].pc = "pull"
  /\ \/ loops' = [loops EXCEPT ![l].pc = "returned", ![l].eos = TRUE]
     \/ /\ Len(loops[l].pulled) < MaxStream
        /\ \E item \in StreamItems :
             IF item.ok \/ loops[l].invoked # <<>>
             THEN loops' = [loops EXCEPT
                    ![l].pulled = Append(@, item),
                    ![l].pc = "in_handler",
                    ![l].inflight = @ + 1,
                    ![l].invoked =
                       Append(@, [idx |-> Len(loops[l].pulled) + 1,
                                  arg |-> IF item.ok
                                          THEN event_handler(loops[l].kind[1],
                                                             item.event[1])
                                          ELSE loops[l].invoked[
                                                 Len(loops[l].invoked)].arg])]
             ELSE loops' = [loops EXCEPT ![l].pulled = Append(@, item)]
  /\ UNCHANGED <<client, tracing, calls, joined>>

\* one turn of `while let Some(event) = stream.next().await { match event }`:
\* None ends the loop, Ok(e) calls event_handler(e), Err(e) is logged
OnPull(l) ==
  /\ loops[l].pc = "pull"
  /\ Schedulable
  /\ \/ loops' = [loops EXCEPT ![l].pc = "returned", ![l].eos = TRUE]
     \/ /\ Len(loops[l].pulled) < MaxStream
        /\ \E item \in StreamItems :
             IF item.ok
             THEN loops' = [loops EXCEPT
                    ![l].pulled = Append(@, item),
                    ![l].pc = "in_handler",
                    ![l].inflight = @ + 1,
                    ![l].invoked =
                       Append(@, [idx |-> Len(loops[l].pulled) + 1,
                                  arg |-> event_handler(loops[l].kind[1],
                                                        item.event[1])])]
             ELSE loops' = [loops EXCEPT ![l].pulled = Append(@, item)]
  /\ UNCHANGED <<client, tracing, calls, joined>>

\* the user callback returns (or panics, which unwinds out of on())
OnHandlerReturn(l) ==
  /\ loops[l].pc = "in_handler"
  /\ \/ /\ loops' = [loops EXCEPT ![l].pc = "pull", ![l].inflight = @ - 1]
        /\ UNCHANGED calls
     \/ /\ loops' = Unwound([loops EXCEPT ![l].pc = "panicked",
                                          ![l].inflight = @ - 1])
        /\ calls' = Unwound(calls)
  /\ UNCHANGED <<client, tracing, joined>>

\* ------------------------------------------------------ signing middleware
SigHeader == "x-flashbots-signature"
HeaderNames == {"content-type", SigHeader}

\* two bundles that differ in inclusion.block (a U64, a hex quantity on the
\* wire), so that two calls can carry equal or different bodies
Bundles == {[version |-> "v0.1", block |-> b] : b \in {"0x100", "0x101"}}

\* the JSON-RPC request body jsonrpsee serializes for send_bundle
RequestBody(bundle) == [method |-> "mev_sendBundle", params |-> <<bundle>>]

\* keccak256 is collision free on the modelled bodies
keccak256(bytes) == [keccak |-> bytes]

\* format!("0x{:x}", H256::from(keccak256(body_bytes)))
SignedMessage(body_bytes) == [prefix |-> "0x", hex |-> keccak256(body_bytes)]

\* Signer::sign_message, when it succeeds
sign_message(signer, message) == [by |-> signer, over |-> message]

\* format!("{:?}:0x{}", signer.address(), signature)
header_val(signer, signature) == [address |-> signer, signature |-> signature]

\* a signature header some earlier hop may have put on the request
StaleHeader ==
  header_val("0xEE", sign_message("0xEE", SignedMessage("stale")))

\* mutant: the value is appended to the ones already under the name
HeaderInsert_Append(headers, name, val) ==
  [headers EXCEPT ![name] = Append(@, val)]

\* HeaderMap::insert : replaces every value stored under the name
HeaderInsert(headers, name, val) == [headers EXCEPT ![name] = <<val>>]

IncomingHeaders(preset) ==
  [h \in HeaderNames |->
     IF h = SigHeader THEN preset ELSE <<"application/json">>]

\* the handle the service holds when the request's service clone is made,
\* and the one `self.inner.clone()` makes inside call()
ServiceHandle(c) == [id |-> <<c, 0>>, ready |-> FALSE]
CloneHandle(h) == [id |-> <<h.id[1], h.id[2] + 1>>, ready |-> FALSE]

\* mutant: the buffered body lives in a slot shared by all calls, so the
\* signature covers whichever body was buffered by the highest call
SignedHeaders_Shared(c) ==
  LET buffered == {d \in CallIds : calls[d].body_bytes # None}
      d == CHOOSE x \in buffered : \A y \in buffered : x >= y
  IN HeaderInsert(calls[c].request[1].headers, SigHeader,
                  header_val(client.signer[1],
                             sign_message(client.signer[1],
                                          SignedMessage(calls[d].body_bytes[1]))))

\* what call() puts on the request once the signer has answered
SignedHeaders(c) ==
  HeaderInsert(calls[c].request[1].headers, SigHeader,
               header_val(client.signer[1],
                          sign_message(client.signer[1],
                                       SignedMessage(calls[c].body_bytes[1]))))

\* send_bundle: signer_client.request("mev_sendBundle", [bundle])
SendBundle(c) ==
  /\ Schedulable
  /\ client.state = "built"
  /\ calls[c].pc = "idle"
  /\ \E bundle \in Bundles, preset \in {<<>>, <<StaleHeader>>} :
       calls' = [calls EXCEPT
                   ![c].pc = "poll_ready",
                   ![c].request =
                      Some([headers |-> IncomingHeaders(preset),
                            body |-> RequestBody(bundle),
                            uri |-> client.http[1]]),
                   ![c].inner = Some(ServiceHandle(c))]
  /\ UNCHANGED <<client, tracing, loops, joined>>

\* FlashbotsSigner::poll_ready
PollReady(c) ==
  /\ Schedulable
  /\ calls[c].pc = "poll_ready"
  /\ \/ calls' = [calls EXCEPT ![c].pc = "call", ![c].inner[1].ready = TRUE]
     \/ calls' = [calls EXCEPT ![c].pc = "returned",
                               ![c].result = "TransportError"]
  /\ UNCHANGED <<client, tracing, loops, joined>>

\* mutant: call() works on a fresh clone and keeps the readied handle
Call_NoSwap(c) ==
  /\ calls[c].pc = "call"
  /\ calls' = [calls EXCEPT
                 ![c].pc = "buffering",
                 ![c].taken = Some(CloneHandle(calls[c].inner[1]))]
  /\ UNCHANGED <<client, tracing, loops, joined>>

\* FlashbotsSigner::call up to the first await
Call(c) ==
  /\ Schedulable
  /\ calls[c].pc = "call"
  /\ calls' = [calls EXCEPT
                 ![c].pc = "buffering",
                 ![c].taken = calls[c].inner,
                 ![c].inner = Some(CloneHandle(calls[c].inner[1]))]
  /\ UNCHANGED <<client, tracing, loops, joined>>

\* mutant: the request goes to the inner transport as soon as it is
\* buffered, while the signer is still being asked
Buffered_ForwardEarly(c) ==
  /\ calls[c].pc = "buffering"
  /\ \/ calls' = [calls EXCEPT
                    ![c].pc = "signing",
                    ![c].body_bytes = Some(calls[c].request[1].body),
                    ![c].signReqs =
                       Append(@, SignedMessage(calls[c].request[1].body)),
                    ![c].forwarded =
                       Append(@, [headers |-> calls[c].request[1].headers,
                                  body |-> calls[c].request[1].body,
                                  uri |-> calls[c].request[1].uri,
                                  handle |-> calls[c].taken[1]])]
     \/ calls' = [calls EXCEPT ![c].pc = "panicked"]
  /\ UNCHANGED <<client, tracing, loops, joined>>

\* to_bytes(body).await.unwrap(), then the signer is asked to sign
Buffered(c) ==
  /\ calls[c].pc = "buffering"
  /\ Schedulable
  /\ \/ /\ calls' = [calls EXCEPT
                       ![c].pc = "signing",
                       ![c].body_bytes = Some(calls[c].request[1].body),
                       ![c].signReqs =
                          Append(@, SignedMessage(calls[c].request[1].body))]
        /\ UNCHANGED loops
     \/ /\ calls' = Unwound([calls EXCEPT ![c].pc = "panicked"])
        /\ loops' = Unwound(loops)
  /\ UNCHANGED <<client, tracing, joined>>

\* sign_message(..).await.unwrap(), header insert, inner.call(request)
Signed(c) ==
  /\ calls[c].pc = "signing"
  /\ Schedulable
  /\ \/ /\ calls' = [calls EXCEPT
                       ![c].pc = "awaiting",
                       ![c].signer = "ok",
                       ![c].forwarded =
                          Append(@, [headers |-> SignedHeaders(c),
                                     body |-> calls[c].body_bytes[1],
                                     uri |-> calls[c].request[1].uri,
                                     handle |-> calls[c].taken[1]])]
        /\ UNCHANGED loops
     \/ /\ calls' = Unwound([calls EXCEPT ![c].pc = "panicked",
                                          ![c].signer = "err"])
        /\ loops' = Unwound(loops)
  /\ UNCHANGED <<client, tracing, joined>>

\* inner.call(request).await, returned unchanged; send_bundle decodes it
Responded(c) ==
  /\ Schedulable
  /\ calls[c].pc = "awaiting"
  /\ \E r \in {"Ok", "TransportError", "RelayError", "DecodeError"} :
       calls' = [calls EXCEPT ![c].pc = "returned", ![c].result = r]
  /\ UNCHANGED <<client, tracing, loops, joined>>

\* ------------------------------------------------------------------- init
IdleCall ==
  [pc |-> "idle", request |-> None, inner |-> None, taken |-> None,
   body_bytes |-> None, signReqs |-> <<>>, signer |-> "none",
   forwarded |-> <<>>, result |-> "none"]

\* nothing constructed, nothing started
InitBase ==
  /\ client = NoClient
  /\ tracing = FALSE
  /\ loops = [l \in OnIds |-> IdleLoop]
  /\ calls = [c \in CallIds |-> IdleCall]

\* every activity is driven by a task of its own
Init == InitBase /\ joined = FALSE

\* the caller drives its send_bundle and on() futures from one task
InitJoined == InitBase /\ joined = TRUE

NextStream ==
  \/ use_ethereum_mainnet
  \/ use_ethereum_goerli
  \/ from_network
  \/ \E l \in OnIds : OnInit(l)
  \/ \E l \in OnIds : OnConnect(l)
  \/ \E l \in OnIds : OnPull(l)
  \/ \E l \in OnIds : OnHandlerReturn(l)

SpecStream == Init /\ [][NextStream]_vars

NextClient ==
  \/ use_ethereum_mainnet
  \/ use_ethereum_goerli
  \/ from_network
  \/ \E c \in CallIds : SendBundle(c)
  \/ \E c \in CallIds : PollReady(c)
  \/ \E c \in CallIds : Call(c)
  \/ \E c \in CallIds : Buffered(c)
  \/ \E c \in CallIds : Signed(c)
  \/ \E c \in CallIds : Responded(c)

SpecClient == Init /\ [][NextClient]_vars

\* the joined run follows each stream up to its first item
OnPullFirst(l) == loops[l].pulled = <<>> /\ OnPull(l)

Next ==
  \/ use_ethereum_mainnet
  \/ \E l \in OnIds : OnInit(l)
  \/ \E l \in OnIds : OnConnect(l)
  \/ \E l \in OnIds : OnPullFirst(l)
  \/ \E l \in OnIds : OnHandlerReturn(l)
  \/ \E c \in CallIds : SendBundle(c)
  \/ \E c \in CallIds : PollReady(c)
  \/ \E c \in CallIds : Call(c)
  \/ \E c \in CallIds : Buffered(c)
  \/ \E c \in CallIds : Signed(c)
  \/ \E c \in CallIds : Responded(c)

Spec == InitJoined /\ [][Next]_vars

\* ================================================================= claims
ErrorResults == {"SigningError", "TransportError", "RelayError", "DecodeError"}

Last(seq) == seq[Len(seq)]

InvokedIdx(l) == {loops[l].invoked[k].idx : k \in 1..Len(loops[l].invoked)}

\* C1: whenever the signer fails to sign the message of a request, that
\* request is never forwarded to the inner transport and the caller of that
\* call receives an error result, a SigningError.
C1_SignerFailureSurfacesError ==
  \A c \in CallIds :
    calls[c].signer = "err" =>
      /\ calls[c].forwarded = <<>>
      /\ calls[c].pc = "returned"
      /\ calls[c].result = "SigningError"

\* C2: a stream message that fails to decode never ends the dispatch loop:
\* after it the loop is still pulling unless the stream itself ended, and a
\* well-formed message pulled right after a failing one has been handed to
\* the handler.
C2_DecodeFailureKeepsLoop ==
  \A l \in OnIds :
    /\ (/\ loops[l].pulled # <<>>
        /\ ~Last(loops[l].pulled).ok
        /\ ~loops[l].eos) => loops[l].pc = "pull"
    /\ \A i \in 1..(Len(loops[l].pulled) - 1) :
         (~loops[l].pulled[i].ok /\ loops[l].pulled[i + 1].ok)
           => (i + 1) \in InvokedIdx(l)

C2_Witness ==
  \E l \in OnIds : \E i \in 1..(Len(loops[l].pulled) - 1) :
    /\ loops[l].pulled[i] = Err("decode")
    /\ loops[l].pulled[i + 1].ok
    /\ (i + 1) \in InvokedIdx(l)

\* C3: within one dispatch loop the handler is invoked in event-arrival
\* order, at most one invocation is in flight, and nothing is pulled from
\* the stream while an invocation is in flight.
C3_SequentialHandler ==
  \A l \in OnIds :
    /\ loops[l].inflight <= 1
    /\ \A j, k \in 1..Len(loops[l].invoked) :
         j < k => loops[l].invoked[j].idx < loops[l].invoked[k].idx
    /\ loops[l].inflight = 1 =>
         /\ loops[l].pc = "in_handler"
         /\ loops[l].invoked # <<>>
         /\ Last(loops[l].invoked).idx = Len(loops[l].pulled)
    /\ loops[l].pc = "pull" => loops[l].inflight = 0

C3_Witness ==
  \E l \in OnIds :
    /\ Len(loops[l].invoked) >= 2
    /\ loops[l].inflight = 1

\* C4: when the stream ends cleanly or yields a transport-fatal error the
\* loop ends and on() returns: nothing is pulled after a transport-fatal
\* error, and one on() invocation opens at most one stream connection.
C4_FatalErrorEndsLoop ==
  \A l \in OnIds :
    /\ loops[l].eos => loops[l].pc = "returned"
    /\ \A i \in 1..Len(loops[l].pulled) :
         loops[l].pulled[i] = Err("transport") => i = Len(loops[l].pulled)
    /\ Len(loops[l].conns) <= 1

\* C5: for a chain id outside {1, 5}, from_network fails construction
\* before the signing HTTP client is built and before any network I/O; no
\* client is produced.
C5_UnsupportedChainFails ==
  (client.requested # None
     /\ client.requested[1] \notin {ChainMainnet, ChainGoerli}) =>
    /\ client.state = "panicked"
    /\ client.http = None
    /\ client.network = None
    /\ client.signer = None
    /\ \A l \in OnIds : loops[l].pc = "idle" /\ loops[l].conns = <<>>
    /\ \A c \in CallIds : calls[c].pc = "idle" /\ calls[c].forwarded = <<>>

C5_Witness ==
  /\ client.state = "panicked"
  /\ client.requested # None
  /\ client.requested[1] \notin {ChainMainnet, ChainGoerli}

\* C6: for concurrent calls in any interleaving, every forwarded request
\* carries a header whose address is the shared signer's address and whose
\* signature is the one over that request's own body, never the signature
\* over another call's different body.
C6_OwnSignature ==
  \A c \in CallIds : \A k \in 1..Len(calls[c].forwarded) :
    LET hv == calls[c].forwarded[k].headers[SigHeader]
        own == calls[c].request[1].body
    IN /\ hv # <<>>
       /\ hv[1].address = client.signer[1]
       /\ hv[1].signature.by = client.signer[1]
       /\ hv[1].signature.over = SignedMessage(own)
       /\ \A d \in CallIds \ {c} :
            (calls[d].request # None /\ calls[d].request[1].body # own)
              => hv[1].signature.over.hex.keccak # calls[d].request[1].body

C6_Witness ==
  \E c, d \in CallIds :
    /\ c # d
    /\ calls[c].forwarded # <<>>
    /\ calls[d].forwarded # <<>>
    /\ calls[c].request[1].body # calls[d].request[1].body

\* C7: within one middleware call the order is buffer the whole body, then
\* sign, then forward: nothing is forwarded while buffering or signing is
\* pending, the signer is asked about the whole body, and the forwarded
\* request is the original one with only x-flashbots-signature set.
C7_BufferSignForward ==
  \A c \in CallIds :
    /\ calls[c].pc \in {"idle", "poll_ready", "call", "buffering", "signing"}
         => calls[c].forwarded = <<>>
    /\ calls[c].signReqs # <<>> =>
         /\ calls[c].body_bytes = Some(calls[c].request[1].body)
         /\ calls[c].signReqs[1] = SignedMessage(calls[c].request[1].body)
    /\ \A k \in 1..Len(calls[c].forwarded) :
         LET f == calls[c].forwarded[k]
         IN /\ calls[c].signer = "ok"
            /\ calls[c].signReqs # <<>>
            /\ f.body = calls[c].request[1].body
            /\ f.uri = calls[c].request[1].uri
            /\ f.headers[SigHeader] # <<>>
            /\ \A h \in HeaderNames \ {SigHeader} :
                 f.headers[h] = calls[c].request[1].headers[h]

C7_Witness ==
  \E c \in CallIds :
    /\ calls[c].pc = "awaiting"
    /\ calls[c].forwarded # <<>>
    /\ calls[c].request[1].headers[SigHeader] # <<>>

C9_DocumentedEndpoints ==
  client.state = "built" =>
    /\ client.requested # None
    /\ client.requested[1] \in {1, 5}
    /\ client.network # None
    /\ client.network[1].chain_id = client.requested[1]
    /\ client.requested[1] = 1 =>
         /\ client.network[1].api_url = "https://relay.flashbots.net"
         /\ client.network[1].stream_url = "https://mev-share.flashbots.net"
    /\ client.requested[1] = 5 =>
         /\ client.network[1].api_url = "https://relay-goerli.flashbots.net"
         /\ client.network[1].stream_url =
              "https://mev-share-goerli.flashbots.net"
    /\ client.http = Some(client.network[1].api_url)
    /\ \A l \in OnIds : \A k \in 1..Len(loops[l].conns) :
         loops[l].conns[k] = client.network[1].stream_url

C9_Witness ==
  /\ client.state = "built"
  /\ client.requested = Some(5)
  /\ \E l \in OnIds : loops[l].conns = <<"https://mev-share-goerli.flashbots.net">>

\* C10: no retry: a send_bundle call causes at most one signing request and
\* at most one forward whatever the outcome (signing failure, transport
\* error, relay error, undecodable response), and the error is returned to
\* the direct caller.
C10_NoRetryErrorReturned ==
  \A c \in CallIds :
    /\ Len(calls[c].signReqs) <= 1
    /\ Len(calls[c].forwarded) <= 1
    /\ calls[c].signer = "err" =>
         /\ calls[c].pc = "returned"
         /\ calls[c].result \in ErrorResults
    /\ calls[c].pc = "returned" => calls[c].result \in ErrorResults \cup {"Ok"}

\* C11: a signer failure in one call fails only that call: the other calls
\* in flight on the same client still run to their own result and an open
\* dispatch loop keeps delivering; none of them is cut short by it.
C11_SignerFailureIsolated ==
  \A c \in CallIds :
    calls[c].signer = "err" =>
      /\ \A d \in CallIds \ {c} : calls[d].pc # "dropped"
      /\ \A l \in OnIds : loops[l].pc # "dropped"

\* C12: a request is forwarded on the inner-transport handle that the
\* preceding poll_ready found ready: call() takes that handle for the
\* request and leaves a fresh clone in the middleware, and concurrent calls
\* hold distinct handles.
C12_ReadiedHandle ==
  \A c \in CallIds :
    /\ calls[c].taken # None =>
         /\ calls[c].taken[1].ready
         /\ calls[c].inner # None
         /\ ~calls[c].inner[1].ready
         /\ calls[c].inner[1].id # calls[c].taken[1].id
    /\ \A k \in 1..Len(calls[c].forwarded) :
         /\ calls[c].forwarded[k].handle = calls[c].taken[1]
         /\ calls[c].forwarded[k].handle.ready
    /\ \A d \in CallIds \ {c} :
         (calls[c].taken # None /\ calls[d].taken # None)
           => /\ calls[c].taken[1].id # calls[d].taken[1].id
              /\ calls[c].taken[1].id # calls[d].inner[1].id

C12_Witness ==
  \E c, d \in CallIds :
    /\ c # d
    /\ calls[c].pc = "awaiting"
    /\ calls[d].pc = "awaiting"
    /\ calls[c].forwarded[1].handle.ready
    /\ calls[c].forwarded[1].handle.id # calls[d].forwarded[1].handle.id

\* C13: every on() tries to initialise the process-wide tracing subscriber
\* before it opens the stream, so once one on() has run, any further on()
\* fails at that initialisation: it opens no connection, pulls nothing and
\* invokes no handler.
C13_SecondOnFailsAtInit ==
  /\ \A l \in OnIds : loops[l].pc # "idle" => tracing
  /\ Cardinality({l \in OnIds :
                    /\ loops[l].pc # "idle"
                    /\ ~(/\ loops[l].pc = "panicked"
                         /\ loops[l].conns = <<>>
                         /\ loops[l].pulled = <<>>
                         /\ loops[l].invoked = <<>>)}) <= 1
  /\ Cardinality({l \in OnIds :
                    loops[l].pc \in {"connecting", "pull", "in_handler",
                                     "returned"}}) <= 1

C13_Witness ==
  \E l, m \in OnIds :
    /\ l # m
    /\ loops[l].invoked # <<>>
    /\ loops[m].pc = "panicked"
    /\ loops[m].kind # None
    /\ loops[m].conns = <<>>

\* C14: every forwarded request carries exactly one x-flashbots-signature
\* value, the one the middleware computed for this request; a value already
\* on the incoming request is replaced by it.
C14_SingleSignatureHeader ==
  \A c \in CallIds : \A k \in 1..Len(calls[c].forwarded) :
    LET hv == calls[c].forwarded[k].headers[SigHeader]
    IN /\ Len(hv) = 1
       /\ hv[1] = header_val(client.signer[1],
                             sign_message(client.signer[1],
                                          SignedMessage(
                                            calls[c].request[1].body)))
       /\ \A i \in 1..Len(calls[c].request[1].headers[SigHeader]) :
            \A j \in 1..Len(hv) :
              hv[j] # calls[c].request[1].headers[SigHeader][i]

C14_Witness ==
  \E c \in CallIds :
    /\ calls[c].pc = "returned"
    /\ calls[c].forwarded # <<>>
    /\ calls[c].request[1].headers[SigHeader] = <<StaleHeader>>

OkIdx(l) == {i \in 1..Len(loops[l].pulled) : loops[l].pulled[i].ok}

\* C15: in one dispatch loop the handler is invoked exactly once for every
\* message received without error and never for one that was an error:
\* after any prefix of the stream the invocations are, in order, the
\* non-error messages pulled so far.
C15_OneInvocationPerMessage ==
  \A l \in OnIds :
    /\ Len(loops[l].invoked) = Cardinality(OkIdx(l))
    /\ InvokedIdx(l) = OkIdx(l)
    /\ \A j, k \in 1..Len(loops[l].invoked) :
         j < k => loops[l].invoked[j].idx < loops[l].invoked[k].idx
    /\ \A k \in 1..Len(loops[l].invoked) :
         loops[l].pulled[loops[l].invoked[k].idx].event[1].hash
           = loops[l].invoked[k].arg.val.hash

C15_Witness ==
  \E l \in OnIds :
    /\ Len(loops[l].pulled) = 3
    /\ loops[l].pulled[1].ok
    /\ ~loops[l].pulled[2].ok
    /\ loops[l].pulled[3].ok
    /\ Len(loops[l].invoked) = 2
====
